---------------------------- MODULE Spec2Model ----------------------------
(***************************************************************************)
(* Model of APIIngestor (src/etl_project_youtube/backup.py): the retrying  *)
(* request primitive _make_request, the paginated fetch fetch_paginated    *)
(* and the incremental fetch fetch_incremental, run against an HTTP API    *)
(* that answers every attempt with a status and a JSON body, or fails at   *)
(* transport level; and the generator batch_process, which needs no API    *)
(* and is run on its own (SpecBatch).                                      *)
(*                                                                         *)
(* Python values are encoded as follows.                                   *)
(*   - a dict of query parameters is a function from its keys (strings)    *)
(*     to its values;                                                      *)
(*   - a JSON body is a record [kind, items, fields]: kind "array" with    *)
(*     its items, or kind "object" with its fields (key -> array items);   *)
(*   - an element of a list of records is a record [page, idx, key]: an    *)
(*     API record is identified by the page it was served on and its       *)
(*     position there, a string (a dict key) has page = idx = 0;           *)
(*   - None is NoneInt among integers, NoneStr among strings and NoneRef   *)
(*     among object references;                                            *)
(*   - objects that can be aliased (the caller's params mapping and the    *)
(*     mapping a fetch builds for its request) live in heap, and the       *)
(*     program's variables hold references to them.                        *)
(* backoff_factor is a number of time units (a float multiplied by a power *)
(* of two is exact, so integers in a fixed unit lose nothing).             *)
(***************************************************************************)
EXTENDS Integers, Sequences, FiniteSets, TLC

\* ------------------------------------------------------------------ bounds
MaxRetriesBound == 3      \* max_retries is drawn from 0..MaxRetriesBound
MaxPerPage == 2           \* per_page is drawn from 1..MaxPerPage
MaxPagesBound == 2        \* max_pages is drawn from None and 0..MaxPagesBound
MaxPage == 3              \* pages beyond MaxPage are not requested
MaxLen == 5               \* batch_process is given lists of at most MaxLen records
MaxBatchSize == 3         \* batch_size is drawn from 1..MaxBatchSize

\* ------------------------------------------------------ encodings of None
NoneInt == -1
NoneStr == "<None>"
NoneRef == "<NoneRef>"

\* -------------------------------------------------------------- constants
base_url == "https://data.police.uk/api/"
Endpoints == {"/crimes"}
PageParams == {"page", "pg"}
BackoffFactors == {3}
SinceValues == {NoneStr, "", "2024-01-01"}
Statuses == {200, 204, 500}
TransportFailure == 0   \* status recorded for an attempt that raised RequestException

EmptyDict == [k \in {} |-> 0]

\* The mappings a caller may hold as its params object.
CallerDicts ==
    { EmptyDict,
      ("date" :> "2025-07") @@ ("page" :> 9) @@ ("results" :> 7) @@ ("since" :> "old") }

VARIABLES
    max_retries, backoff_factor,   \* the ingestor's configuration
    heap,                          \* heap.caller: the caller's mapping; heap.fresh: the request's
    op, pc,                        \* the running operation and its position
    endpoint, params, page_param, per_page, max_pages, since,  \* arguments
    req_params,                    \* reference held by paged_params / query_params
    url,                           \* url argument of _make_request
    results, page,                 \* locals of fetch_paginated
    retries,                       \* local of _make_request
    data,                          \* value returned by _make_request
    ret, error,                    \* outcome of the call
    \* recorders of what the environment observed
    params0,                       \* the caller's mapping as it was at construction
    sleeps,                        \* time.sleep arguments of the request in progress
    attempts,                      \* HTTP attempts of the request in progress
    status,                        \* outcome of the attempt being handled, NoneInt if none
    totalAttempts,                 \* HTTP attempts of the current call
    requestLog,                    \* parameters of each resilient request of the call
    served,                        \* bodies of the 200 responses of the call, in order
    \* batch_process
    batch_data, batch_size,        \* arguments data and batch_size
    batch_i,                       \* the next value of the loop variable i
    batches                        \* the batches yielded so far, in order

vars == << max_retries, backoff_factor, heap, op, pc, endpoint, params,
           page_param, per_page, max_pages, since, req_params, url, results,
           page, retries, data, ret, error, params0, sleeps, attempts,
           status, totalAttempts, requestLog, served,
           batch_data, batch_size, batch_i, batches >>

batchVars == << batch_data, batch_size, batch_i, batches >>

\* ------------------------------------------------------------ JSON values
JArray(s) == [kind |-> "array", items |-> s, fields |-> EmptyDict]
JObject(f) == [kind |-> "object", items |-> << >>, fields |-> f]
JNull == [kind |-> "null", items |-> << >>, fields |-> EmptyDict]

Rec(p, i) == [page |-> p, idx |-> i, key |-> ""]
Str(k) == [page |-> 0, idx |-> 0, key |-> k]

\* The n records the API serves for page p.
ServedItems(p, n) == [i \in 1..n |-> Rec(p, i)]

\* Keys of a JSON object in the order the body lists them.
KeyOrder == << "results", "meta" >>
ObjectKeys(j) == SelectSeq(KeyOrder, LAMBDA k : k \in DOMAIN j.fields)

\* The bodies the API may send for page p: a bare array, an envelope with a
\* "results" key, an object without one, or an empty object.  Every 200 body
\* is JSON (response.json() at line 51 returns), as the API's interface states.
Bodies(p, maxItems) ==
    { JArray(ServedItems(p, n)) : n \in 0..maxItems }
    \cup { JObject([k \in {"results"} |-> ServedItems(p, n)]) : n \in 0..maxItems }
    \cup { JObject([k \in {"meta"} |-> ServedItems(p, 1)]), JObject(EmptyDict) }

\* Python truth value of a JSON value, of an int-or-None, of a str-or-None.
TruthyJson(j) ==
    CASE j.kind = "array" -> j.items # << >>
      [] j.kind = "object" -> DOMAIN j.fields # {}
      [] OTHER -> FALSE
TruthyIntNotNone(n) == n # NoneInt
TruthyInt(n) == n # NoneInt /\ n # 0
TruthyStrNotNone(s) == s # NoneStr
TruthyStr(s) == s # NoneStr /\ s # ""

\* len(x) and list(x) of a JSON value (iterating a dict yields its keys).
JsonLen(j) == IF j.kind = "array" THEN Len(j.items) ELSE Cardinality(DOMAIN j.fields)
JsonIter(j) ==
    IF j.kind = "array" THEN j.items
    ELSE [i \in 1..Len(ObjectKeys(j)) |-> Str(ObjectKeys(j)[i])]


\* ------------------------------------------------- pieces of _make_request
\* Each piece of the code is preceded, where a property is checked against a
\* faulty variant of it, by that variant (IsSuccessAny2xx before IsSuccess).
\* line 50: response.status_code == 200
IsSuccessAny2xx(code) == code >= 200 /\ code < 300
IsSuccess(code) == code = 200

\* line 47: while retries < self.max_retries
MayAttemptInclusive(r, m) == r <= m
MayAttemptCallBudget(r, m) == totalAttempts < m
MayAttempt(r, m) == r < m

\* line 58: self.backoff_factor * (2 ** (retries - 1)), retries already incremented
SleepTimeLinear(f, r) == f * r
SleepTime(f, r) == f * 2 ^ (r - 1)

\* line 62: the exception raised on exhaustion carries the url and max_retries
NoError == [raised |-> FALSE, url |-> << >>, retries |-> 0]
Exhausted(u, m) == [raised |-> TRUE, url |-> u, retries |-> m]

\* ------------------------------------------------------ pieces of the fetches
\* lines 95, 136: f"{self.base_url}{endpoint}", kept as its two parts
Url(e) == << base_url, e >>

\* lines 91, 131: params.copy() if params else {}.  The result is a new object.
CopyOrEmptyAliased(h, p) ==
    IF p # NoneRef /\ DOMAIN h[p] # {}
    THEN [heap |-> h, ref |-> p]
    ELSE [heap |-> [h EXCEPT !.fresh = EmptyDict], ref |-> "fresh"]
CopyOrEmpty(h, p) ==
    IF p # NoneRef /\ DOMAIN h[p] # {}
    THEN [heap |-> [h EXCEPT !.fresh = h[p]], ref |-> "fresh"]
    ELSE [heap |-> [h EXCEPT !.fresh = EmptyDict], ref |-> "fresh"]

\* dict.update / item assignment on the object r refers to
DictSetDefault(h, r, upd) ==
    [h EXCEPT ![r] = [k \in DOMAIN h[r] \cup DOMAIN upd |->
                         IF k \in DOMAIN h[r] THEN h[r][k] ELSE upd[k]]]
DictUpdate(h, r, upd) ==
    [h EXCEPT ![r] = [k \in DOMAIN h[r] \cup DOMAIN upd |->
                         IF k \in DOMAIN upd THEN upd[k] ELSE h[r][k]]]

\* line 92: {page_param: page, "results": per_page}; the later key wins
PageDict(pp, pg, n) == ("results" :> n) @@ (pp :> pg)

\* lines 97, 137: data.get("results") if isinstance(data, dict) and "results" in data else data
UnwrapNothing(d) == d
Unwrap(d) ==
    IF d.kind = "object" /\ "results" \in DOMAIN d.fields
    THEN JArray(d.fields["results"])
    ELSE d

\* line 101: results.extend(items)
ExtendInFront(r, items) == JsonIter(items) \o r
Extend(r, items) == r \o JsonIter(items)

\* line 102: max_pages and page >= max_pages
MaxPagesExceeded(m, pg) == TruthyInt(m) /\ pg > m
MaxPagesReached(m, pg) == TruthyInt(m) /\ pg >= m

\* line 104: len(items) < per_page
ShortPageOffByOne(items, n) == JsonLen(items) < n - 1
ShortPage(items, n) == JsonLen(items) < n

\* line 107: page += 1
NextPageSkipping(pg) == pg + 2
NextPage(pg) == pg + 1

\* The state between calls: no call is running and no local is live.
Idle ==
    /\ op = "none"
    /\ pc = "idle"
    /\ endpoint = ""
    /\ params = NoneRef
    /\ page_param = ""
    /\ per_page = 0
    /\ max_pages = NoneInt
    /\ since = NoneStr
    /\ req_params = NoneRef
    /\ url = << >>
    /\ results = << >>
    /\ page = 0
    /\ retries = 0
    /\ data = JNull
    /\ ret = JNull
    /\ error = NoError
    /\ sleeps = << >>
    /\ attempts = 0
    /\ status = NoneInt
    /\ totalAttempts = 0
    /\ requestLog = << >>
    /\ served = << >>
    /\ batch_data = << >>
    /\ batch_size = 0
    /\ batch_i = 0
    /\ batches = << >>

\* ------------------------------------------------------------------ Init
Init ==
    /\ max_retries \in 0..MaxRetriesBound
    /\ backoff_factor \in BackoffFactors
    /\ \E d \in CallerDicts :
          /\ heap = [caller |-> d, fresh |-> EmptyDict]
          /\ params0 = d
    /\ Idle

config == << max_retries, backoff_factor, params0 >>

\* Entry of _make_request (line 46), called with url u and the mapping r refers to.
EnterRequest(u, h, r) ==
    /\ url' = u
    /\ req_params' = r
    /\ heap' = h
    /\ retries' = 0
    /\ pc' = "request"

\* fetch_paginated, lines 87-88
CallFetchPaginated(e, p, pp, n, m) ==
    /\ pc = "idle"
    /\ op' = "fetch_paginated"
    /\ endpoint' = e
    /\ params' = p
    /\ page_param' = pp
    /\ per_page' = n
    /\ max_pages' = m
    /\ results' = << >>
    /\ page' = 1
    /\ pc' = "loop"
    /\ UNCHANGED << batchVars, config, heap, since, req_params, url, retries, data, ret,
                    error, sleeps, attempts, status, totalAttempts, requestLog,
                    served >>

\* fetch_paginated, lines 90-95: build the page's parameters, call _make_request
RequestPage ==
    /\ pc = "loop"
    /\ page <= MaxPage
    /\ LET c == CopyOrEmpty(heap, params)
           h == DictUpdate(c.heap, c.ref, PageDict(page_param, page, per_page))
       IN  /\ EnterRequest(Url(endpoint), h, c.ref)
           /\ requestLog' = Append(requestLog, [url |-> Url(endpoint), params |-> h[c.ref]])
    /\ sleeps' = << >>
    /\ attempts' = 0
    /\ status' = NoneInt
    /\ UNCHANGED << batchVars, config, op, endpoint, params, page_param, per_page,
                    max_pages, since, results, page, data, ret, error,
                    totalAttempts, served >>

\* fetch_incremental, lines 131-136
CallFetchIncremental(e, s, p) ==
    /\ pc = "idle"
    /\ op' = "fetch_incremental"
    /\ endpoint' = e
    /\ params' = p
    /\ since' = s
    /\ LET c == CopyOrEmpty(heap, p)
           h == IF TruthyStr(s) THEN DictUpdate(c.heap, c.ref, "since" :> s) ELSE c.heap
       IN  /\ EnterRequest(Url(e), h, c.ref)
           /\ requestLog' = << [url |-> Url(e), params |-> h[c.ref]] >>
    /\ UNCHANGED << batchVars, config, page_param, per_page, max_pages, results, page,
                    data, ret, error, sleeps, attempts, status, totalAttempts,
                    served >>

\* The page number the API reads from the query of the current request.
RequestedPage ==
    IF req_params # NoneRef /\ page_param \in DOMAIN heap[req_params]
    THEN heap[req_params][page_param]
    ELSE 0

\* What one HTTP attempt may bring: a status with a JSON body, or a transport failure.
Responses ==
    { [status |-> 200, body |-> b] :
        b \in Bodies(RequestedPage,
                     IF op = "fetch_incremental" THEN MaxPerPage ELSE per_page) }
    \cup { [status |-> s, body |-> JNull] : s \in (Statuses \ {200}) \cup {TransportFailure} }

\* _make_request, lines 47-55: one pass of the loop up to the end of the try
Attempt(resp) ==
    /\ pc = "request"
    /\ MayAttempt(retries, max_retries)
    /\ attempts' = attempts + 1
    /\ status' = resp.status
    /\ totalAttempts' = totalAttempts + 1
    /\ IF resp.status # TransportFailure /\ IsSuccess(resp.status)
       THEN /\ data' = resp.body          \* line 51: return, the frame is gone
            /\ retries' = 0
            /\ served' = Append(served, resp.body)
            /\ pc' = "response"
       ELSE /\ pc' = "backoff"
            /\ UNCHANGED << data, served, retries >>
    /\ UNCHANGED << batchVars, config, heap, op, endpoint, params, page_param,
                    per_page, max_pages, since, req_params, url, results, page,
                    ret, error, sleeps, requestLog >>

\* _make_request, lines 57-60
BackoffNoTrailingSleep ==
    /\ pc = "backoff"
    /\ retries' = retries + 1
    /\ sleeps' = IF retries + 1 < max_retries
                 THEN Append(sleeps, SleepTime(backoff_factor, retries + 1))
                 ELSE sleeps
    /\ status' = NoneInt
    /\ pc' = "request"
    /\ UNCHANGED << batchVars, config, heap, op, endpoint, params, page_param,
                    per_page, max_pages, since, req_params, url, results, page,
                    data, ret, error, attempts, totalAttempts, requestLog, served >>
Backoff ==
    /\ pc = "backoff"
    /\ retries' = retries + 1
    /\ sleeps' = Append(sleeps, SleepTime(backoff_factor, retries + 1))
    /\ status' = NoneInt
    /\ pc' = "request"
    /\ UNCHANGED << batchVars, config, heap, op, endpoint, params, page_param,
                    per_page, max_pages, since, req_params, url, results, page,
                    data, ret, error, attempts, totalAttempts, requestLog, served >>

\* _make_request, line 62; neither fetch catches the exception, so the call ends
RaiseExhaustedSalvaged ==
    /\ pc = "request"
    /\ ~ MayAttempt(retries, max_retries)
    /\ ret' = JArray(results)
    /\ pc' = "returned"
    /\ UNCHANGED << batchVars, config, heap, op, endpoint, params, page_param,
                    per_page, max_pages, since, req_params, url, results, page,
                    retries, data, error, attempts, status, sleeps,
                    totalAttempts, requestLog, served >>
RaiseExhausted ==
    /\ pc = "request"
    /\ ~ MayAttempt(retries, max_retries)
    /\ error' = Exhausted(url, max_retries)
    /\ pc' = "raised"
    /\ UNCHANGED << batchVars, config, heap, op, endpoint, params, page_param,
                    per_page, max_pages, since, req_params, url, results, page,
                    retries, data, ret, attempts, status, sleeps,
                    totalAttempts, requestLog, served >>

\* The recorders of the current request start afresh once its result is used.
RequestConsumed ==
    /\ sleeps' = << >>
    /\ attempts' = 0
    /\ status' = NoneInt

\* fetch_paginated, lines 97-109
ProcessPage ==
    /\ pc = "response"
    /\ op = "fetch_paginated"
    /\ LET items == Unwrap(data)
       IN  IF ~ TruthyJson(items)
           THEN /\ ret' = JArray(results)
                /\ pc' = "returned"
                /\ UNCHANGED << results, page >>
           ELSE /\ results' = Extend(results, items)
                /\ IF MaxPagesReached(max_pages, page) \/ ShortPage(items, per_page)
                   THEN /\ ret' = JArray(results')
                        /\ pc' = "returned"
                        /\ page' = page
                   ELSE /\ page' = NextPage(page)
                        /\ pc' = "loop"
                        /\ ret' = ret
    /\ RequestConsumed
    /\ UNCHANGED << batchVars, config, heap, op, endpoint, params, page_param,
                    per_page, max_pages, since, req_params, url, retries, data,
                    error, totalAttempts, requestLog, served >>

\* fetch_incremental, line 137
ReturnIncrementalAgain ==
    /\ pc = "response"
    /\ op = "fetch_incremental"
    /\ IF Len(served) < 2 /\ TruthyJson(Unwrap(data))
       THEN /\ requestLog' = Append(requestLog, requestLog[1])
            /\ pc' = "request"
            /\ ret' = ret
       ELSE /\ ret' = Unwrap(data)
            /\ pc' = "returned"
            /\ requestLog' = requestLog
    /\ RequestConsumed
    /\ UNCHANGED << batchVars, config, heap, op, endpoint, params, page_param,
                    per_page, max_pages, since, req_params, url, results, page,
                    retries, data, error, totalAttempts, served >>
ReturnIncremental ==
    /\ pc = "response"
    /\ op = "fetch_incremental"
    /\ ret' = Unwrap(data)
    /\ pc' = "returned"
    /\ RequestConsumed
    /\ UNCHANGED << batchVars, config, heap, op, endpoint, params, page_param,
                    per_page, max_pages, since, req_params, url, results, page,
                    retries, data, error, totalAttempts, requestLog, served >>

\* The caller has received the result or the exception; the call's frame and
\* the mapping it built are gone, and the ingestor can be called again.
CallEnds ==
    /\ pc \in {"returned", "raised"}
    /\ op' = "none"
    /\ pc' = "idle"
    /\ endpoint' = ""
    /\ params' = NoneRef
    /\ page_param' = ""
    /\ per_page' = 0
    /\ max_pages' = NoneInt
    /\ since' = NoneStr
    /\ req_params' = NoneRef
    /\ url' = << >>
    /\ results' = << >>
    /\ page' = 0
    /\ retries' = 0
    /\ data' = JNull
    /\ ret' = JNull
    /\ error' = NoError
    /\ sleeps' = << >>
    /\ attempts' = 0
    /\ status' = NoneInt
    /\ totalAttempts' = 0
    /\ requestLog' = << >>
    /\ served' = << >>
    /\ heap' = [heap EXCEPT !.fresh = EmptyDict]
    /\ UNCHANGED << batchVars, config >>

ParamRefs == {NoneRef, "caller"}
MaxPagesValues == {NoneInt} \cup 0..MaxPagesBound

Next ==
    \/ \E e \in Endpoints, p \in ParamRefs, pp \in PageParams,
          n \in 1..MaxPerPage, m \in MaxPagesValues :
          CallFetchPaginated(e, p, pp, n, m)
    \/ \E e \in Endpoints, s \in SinceValues, p \in ParamRefs :
          CallFetchIncremental(e, s, p)
    \/ RequestPage
    \/ \E resp \in Responses : Attempt(resp)
    \/ Backoff
    \/ RaiseExhausted
    \/ ProcessPage
    \/ ReturnIncremental
    \/ CallEnds

Spec == Init /\ [][Next]_vars

\* ------------------------------------------- page_param named "results"
\* A caller may name the page parameter like the fixed page-size key of line
\* 92.  What the API then answers is of no interest (it is sent no page
\* number); what the fetch sends is, and is examined on its own: paginated
\* fetches with every page parameter name, the colliding one included, by an
\* ingestor that tries each request once.
PageParamsAll == PageParams \cup {"results"}

InitParams == Init /\ max_retries = 1

NextParams ==
    \/ \E e \in Endpoints, p \in ParamRefs, pp \in PageParamsAll,
          n \in 1..MaxPerPage, m \in MaxPagesValues :
          CallFetchPaginated(e, p, pp, n, m)
    \/ RequestPage
    \/ \E resp \in Responses : Attempt(resp)
    \/ Backoff
    \/ RaiseExhausted
    \/ ProcessPage
    \/ CallEnds

SpecParams == InitParams /\ [][NextParams]_vars

\* ------------------------------------------------------------ batch_process
\* lines 150-151: data[lo:hi] for 0 <= lo <= hi (a slice stops at the end of the list)
SliceOverlapping(s, lo, hi) == SubSeq(s, lo + 1, IF hi + 1 < Len(s) THEN hi + 1 ELSE Len(s))
Slice(s, lo, hi) == SubSeq(s, lo + 1, IF hi < Len(s) THEN hi ELSE Len(s))

\* The lists batch_process is given: up to MaxLen records, repeats allowed.
BatchRecords == { Rec(1, 1), Rec(1, 2) }
BatchInputs == UNION { [1..n -> BatchRecords] : n \in 0..MaxLen }

\* vars without op, pc and the variables of batch_process
fetchVars == << heap, endpoint, params, page_param, per_page, max_pages, since,
                req_params, url, results, page, retries, data, ret, error,
                sleeps, attempts, status, totalAttempts, requestLog, served >>

\* batch_process(data, batch_size), line 139: the generator is created; no
\* line of its body runs before the first batch is asked for
CallBatchProcess(d, b) ==
    /\ pc = "idle"
    /\ op' = "batch_process"
    /\ pc' = "batching"
    /\ batch_data' = d
    /\ batch_size' = b
    /\ batch_i' = 0
    /\ batches' = << >>
    /\ UNCHANGED << config, fetchVars >>

\* lines 150-151: range(0, len(data), batch_size) has a next value i; yield data[i:i + batch_size]
YieldBatch ==
    /\ pc = "batching"
    /\ batch_i < Len(batch_data)
    /\ batches' = Append(batches, Slice(batch_data, batch_i, batch_i + batch_size))
    /\ batch_i' = batch_i + batch_size
    /\ UNCHANGED << config, fetchVars, op, pc, batch_data, batch_size >>

\* line 150: the range is used up, the generator ends
BatchesExhausted ==
    /\ pc = "batching"
    /\ ~ (batch_i < Len(batch_data))
    /\ pc' = "exhausted"
    /\ UNCHANGED << config, fetchVars, op, batchVars >>

NextBatch ==
    \/ \E d \in BatchInputs, b \in 1..MaxBatchSize : CallBatchProcess(d, b)
    \/ YieldBatch
    \/ BatchesExhausted

SpecBatch == Init /\ [][NextBatch]_vars

\* ------------------------------------------------------------------ claims
InRequest == pc \in {"request", "backoff", "response", "raised"}

\* C1: for max_retries >= 1, a request whose attempts all fail issues exactly
\* max_retries HTTP attempts, never one more, and only then fails, with an
\* error that carries the request's URL and the retry count.
C1_ExhaustionAfterMaxRetries ==
    (max_retries >= 1 /\ InRequest) =>
        /\ attempts <= max_retries
        /\ (pc = "request" /\ attempts = max_retries) =>
              /\ ENABLED RaiseExhausted
              /\ ~ ENABLED (\E resp \in Responses : Attempt(resp))
        /\ pc = "raised" =>
              /\ attempts = max_retries
              /\ error = [raised |-> TRUE,
                          url |-> << base_url, endpoint >>,
                          retries |-> max_retries]

C1_Witness ==
    /\ pc = "raised"
    /\ max_retries = MaxRetriesBound
    /\ attempts = MaxRetriesBound
    /\ error.raised

\* C2: an attempt succeeds iff its status is exactly 200: the request returns
\* with the body of that attempt, all earlier attempts having failed; a failed
\* attempt k < max_retries raises nothing and attempt k+1 follows; an error
\* reaches the caller only after max_retries failed attempts.
C2_SuccessIffStatus200 ==
    /\ pc = "response" =>
          /\ status = 200
          /\ attempts >= 1
          /\ Len(sleeps) = attempts - 1
          /\ data = served[Len(served)]
          /\ error = NoError
    /\ pc = "backoff" =>
          /\ status # 200
          /\ Len(sleeps) = attempts - 1
          /\ error = NoError
    /\ (pc = "request" /\ attempts < max_retries) =>
          /\ Len(sleeps) = attempts
          /\ error = NoError
          /\ ~ ENABLED RaiseExhausted
          /\ ENABLED (\E resp \in Responses : Attempt(resp))
    /\ pc = "raised" => attempts = max_retries /\ Len(sleeps) = max_retries

C2_Witness ==
    /\ pc = "response"
    /\ attempts = 3
    /\ status = 200
    /\ Len(data.items) = 2

\* C3: the sleep after the k-th failed attempt of a request is
\* backoff_factor * 2^(k-1), for every k up to max_retries.
C3_BackoffSchedule ==
    /\ Len(sleeps) <= max_retries
    /\ \A k \in 1..Len(sleeps) : sleeps[k] = backoff_factor * 2 ^ (k - 1)
    /\ pc = "raised" => Len(sleeps) = max_retries

C3_Witness ==
    /\ pc = "raised"
    /\ max_retries = 3
    /\ sleeps = << backoff_factor, 2 * backoff_factor, 4 * backoff_factor >>

\* What the specification calls a page response: a bare array of records, or
\* an object with a "results" array; and the records of such a response.
IsPageResponse(b) ==
    b.kind = "array" \/ (b.kind = "object" /\ "results" \in DOMAIN b.fields)
RecordsOf(b) == IF b.kind = "array" THEN b.items ELSE b.fields["results"]

RECURSIVE ConcatRecords(_)
ConcatRecords(bs) ==
    IF bs = << >> THEN << >>
    ELSE ConcatRecords(SubSeq(bs, 1, Len(bs) - 1)) \o RecordsOf(bs[Len(bs)])

AllPageResponses(bs) == \A i \in 1..Len(bs) : IsPageResponse(bs[i])
FullPages(bs, n) == \A i \in 1..Len(bs) : Len(RecordsOf(bs[i])) = n
Paginating == op = "fetch_paginated"

\* C4: without max_pages, when pages 1..n-1 bring exactly per_page records and
\* page n brings between 1 and per_page-1, the fetch ends at page n: n page
\* requests, no request for page n+1, and the result is pages 1..n concatenated.
ShortPageSeen ==
    /\ Paginating
    /\ max_pages = NoneInt
    /\ served # << >>
    /\ AllPageResponses(served)
    /\ FullPages(SubSeq(served, 1, Len(served) - 1), per_page)
    /\ Len(RecordsOf(served[Len(served)])) \in 1..(per_page - 1)

C4_ShortPageStops ==
    ShortPageSeen =>
        /\ pc \in {"response", "returned"}
        /\ Len(requestLog) = Len(served)
        /\ page = Len(served)
        /\ error = NoError
        /\ pc = "returned" => ret = JArray(ConcatRecords(served))

C4_Witness ==
    /\ ShortPageSeen
    /\ pc = "returned"
    /\ per_page = 2
    /\ Len(served) = 3
    /\ Len(ret.items) = 5

\* C5: with max_pages = m >= 1 and an API whose every page brings exactly
\* per_page records, the fetch makes exactly m page requests, pages 1..m, and
\* returns the m pages concatenated.
OnlyFullPages ==
    /\ Paginating
    /\ max_pages >= 1
    /\ AllPageResponses(served)
    /\ FullPages(served, per_page)

C5_MaxPagesStops ==
    OnlyFullPages =>
        /\ Len(served) <= max_pages
        /\ Len(requestLog) <= max_pages
        /\ \A k \in 1..Len(requestLog) : requestLog[k].params[page_param] = k
        /\ Len(served) = max_pages =>
              /\ pc \in {"response", "returned"}
              /\ Len(requestLog) = max_pages
        /\ pc = "returned" =>
              /\ Len(requestLog) = max_pages
              /\ Len(served) = max_pages
              /\ ret = JArray(ConcatRecords(served))

C5_Witness ==
    /\ OnlyFullPages
    /\ pc = "returned"
    /\ max_pages = 2
    /\ per_page = 2
    /\ Len(requestLog) = 2
    /\ Len(ret.items) = 4

\* C6: the first page without records (an empty array, or an envelope whose
\* results are empty) ends the fetch: it adds nothing to the result and no
\* later page is requested; an empty first page gives an empty result after
\* exactly one page request.
IsEmptyPage(b) == IsPageResponse(b) /\ RecordsOf(b) = << >>

EmptyPageSeen ==
    /\ Paginating
    /\ served # << >>
    /\ AllPageResponses(served)
    /\ IsEmptyPage(served[Len(served)])

C6_EmptyPageStops ==
    /\ Paginating =>
          \A i \in 1..(Len(served) - 1) : ~ IsEmptyPage(served[i])
    /\ EmptyPageSeen =>
          /\ pc \in {"response", "returned"}
          /\ Len(requestLog) = Len(served)
          /\ error = NoError
          /\ pc = "returned" =>
                /\ ret = JArray(ConcatRecords(SubSeq(served, 1, Len(served) - 1)))
                /\ Len(served) = 1 => ret = JArray(<< >>) /\ Len(requestLog) = 1

C6_Witness ==
    /\ EmptyPageSeen
    /\ pc = "returned"
    /\ served = << JObject([k \in {"results"} |-> << >>]) >>
    /\ ret = JArray(<< >>)
    /\ Len(requestLog) = 1

C6_WitnessLaterPage ==
    /\ EmptyPageSeen
    /\ pc = "returned"
    /\ Len(served) = 3
    /\ Len(ret.items) = 4

\* C7: at every point of a paginated fetch the accumulated result is the
\* records of the pages consumed so far, page after page and in each page's
\* own order; what the fetch returns is that sequence, whichever condition
\* ended it.
ConsumedPages ==
    IF pc = "response" THEN SubSeq(served, 1, Len(served) - 1) ELSE served

Before(a, b) == a.page < b.page \/ (a.page = b.page /\ a.idx < b.idx)

C7_OrderPreserved ==
    (Paginating /\ AllPageResponses(served)) =>
        /\ results = ConcatRecords(ConsumedPages)
        /\ \A i, j \in 1..Len(results) : i < j => Before(results[i], results[j])
        /\ pc = "returned" => ret = JArray(results)

C7_Witness ==
    /\ Paginating
    /\ AllPageResponses(served)
    /\ pc = "returned"
    /\ ret = JArray(<< Rec(1, 1), Rec(1, 2), Rec(2, 1), Rec(2, 2), Rec(3, 1) >>)

\* C8: when the request of a page, or the one request of an incremental
\* fetch, exhausts its retries, the call ends with the exhaustion error,
\* returns nothing (the records already accumulated are lost) and requests
\* nothing more.
RequestUnanswered == Len(requestLog) = Len(served) + 1

C8_ExhaustionIsFatal ==
    /\ pc = "raised" =>
          /\ RequestUnanswered
          /\ ret = JNull
          /\ error = Exhausted(<< base_url, endpoint >>, max_retries)
          /\ ~ ENABLED RequestPage
          /\ ~ ENABLED (\E resp \in Responses : Attempt(resp))
    /\ pc = "returned" =>
          /\ ~ RequestUnanswered
          /\ error = NoError
    /\ (pc = "request" /\ attempts >= max_retries) =>
          /\ ENABLED RaiseExhausted
          /\ ~ ENABLED (\E resp \in Responses : Attempt(resp))

C8_Witness ==
    /\ pc = "raised"
    /\ Paginating
    /\ page = 2
    /\ Len(results) = 2
    /\ ret = JNull

C8_WitnessIncremental ==
    /\ pc = "raised"
    /\ op = "fetch_incremental"
    /\ max_retries = 2
    /\ ret = JNull

\* C9: both fetches unwrap a response the same way: an object with a
\* "results" key gives the sequence under that key, a bare array gives itself.
LastRecords(n) == SubSeq(results, Len(results) - n + 1, Len(results))

C9_EnvelopeUnwrapped ==
    /\ (op = "fetch_incremental" /\ pc = "returned") =>
          LET b == served[1]
          IN  /\ (b.kind = "object" /\ "results" \in DOMAIN b.fields) =>
                    ret = [kind |-> "array", items |-> b.fields["results"],
                           fields |-> EmptyDict]
              /\ b.kind = "array" => ret = b
    /\ (Paginating /\ pc \in {"loop", "returned"} /\ served # << >>) =>
          LET b == served[Len(served)]
          IN  /\ (b.kind = "object" /\ "results" \in DOMAIN b.fields) =>
                    LastRecords(Len(b.fields["results"])) = b.fields["results"]
              /\ b.kind = "array" => LastRecords(Len(b.items)) = b.items

C9_Witness ==
    /\ op = "fetch_incremental"
    /\ pc = "returned"
    /\ served = << JObject([k \in {"results"} |-> << Rec(0, 1), Rec(0, 2) >>]) >>
    /\ ret = JArray(<< Rec(0, 1), Rec(0, 2) >>)

C9_WitnessPaginated ==
    /\ Paginating
    /\ pc = "returned"
    /\ served = << JObject([k \in {"results"} |-> << Rec(1, 1) >>]) >>
    /\ ret = JArray(<< Rec(1, 1) >>)

\* C10: the caller's params mapping is never changed by a fetch: during and
\* after every call, successful or failing, it equals what it was before.
C10_ParamsUntouched == heap.caller = params0

C10_Witness ==
    /\ pc \in {"returned", "raised"}
    /\ Paginating
    /\ params = "caller"
    /\ params0 # EmptyDict
    /\ heap[req_params] # params0
    /\ heap[req_params][page_param] = 2
    /\ heap[req_params]["results"] = per_page
    /\ heap.caller = params0

C10_WitnessIncremental ==
    /\ pc \in {"returned", "raised"}
    /\ op = "fetch_incremental"
    /\ params = "caller"
    /\ params0 # EmptyDict
    /\ heap[req_params]["since"] = "2024-01-01"
    /\ heap.caller["since"] = "old"

\* C11: for a list of n records and batch_size b >= 1, batch_process yields
\* ceil(n/b) batches in order; the k-th is the contiguous slice of the input
\* that starts at record (k-1)*b; every batch has exactly b records except
\* possibly the last, which has between 1 and b; and the batches concatenated
\* are the input.
RECURSIVE Flatten(_)
Flatten(ss) ==
    IF ss = << >> THEN << >>
    ELSE Flatten(SubSeq(ss, 1, Len(ss) - 1)) \o ss[Len(ss)]

CeilDiv(n, b) == (n + b - 1) \div b
Batching == op = "batch_process"

C11_BatchesPartitionInput ==
    Batching =>
        LET n == Len(batch_data)
            b == batch_size
            covered == IF Len(batches) * b < n THEN Len(batches) * b ELSE n
        IN  /\ Len(batches) <= CeilDiv(n, b)
            /\ \A k \in 1..Len(batches) :
                  /\ Len(batches[k]) \in 1..b
                  /\ k < CeilDiv(n, b) => Len(batches[k]) = b
                  /\ \A j \in 1..Len(batches[k]) :
                        batches[k][j] = batch_data[(k - 1) * b + j]
            /\ Flatten(batches) = SubSeq(batch_data, 1, covered)
            /\ ENABLED YieldBatch <=> Len(batches) < CeilDiv(n, b)
            /\ pc = "exhausted" =>
                  /\ Len(batches) = CeilDiv(n, b)
                  /\ Flatten(batches) = batch_data

C11_Witness ==
    /\ Batching
    /\ pc = "exhausted"
    /\ Len(batch_data) = 5
    /\ batch_size = 2
    /\ Len(batches) = 3
    /\ << Len(batches[1]), Len(batches[2]), Len(batches[3]) >> = << 2, 2, 1 >>

\* The one request of an incremental fetch has been built: its parameters as
\* sent, and the caller's base parameters (none given counts as empty).
IncrementalRequested == op = "fetch_incremental" /\ requestLog # << >>
SentParams == requestLog[1].params
BaseParams == IF params = NoneRef THEN EmptyDict ELSE params0

\* C12 as stated: with a since cursor c the request's parameters include
\* since = c; without a since cursor they contain no "since" key at all.
C12_AsStated ==
    IncrementalRequested =>
        IF since # NoneStr
        THEN "since" \in DOMAIN SentParams /\ SentParams["since"] = since
        ELSE "since" \notin DOMAIN SentParams

\* C12, amended: with a non-empty since cursor c the request's parameters are
\* the caller's parameters with "since" set to c (replacing a "since" of the
\* caller's); with no cursor, or an empty one, the fetch adds no "since" key:
\* the request's parameters are exactly the caller's, which carry a "since"
\* key only if the caller put one there.
C12_CursorInjected ==
    IncrementalRequested =>
        /\ heap[req_params] = SentParams
        /\ IF since # NoneStr /\ since # ""
           THEN /\ DOMAIN SentParams = DOMAIN BaseParams \cup {"since"}
                /\ SentParams["since"] = since
                /\ \A k \in DOMAIN BaseParams \ {"since"} : SentParams[k] = BaseParams[k]
           ELSE SentParams = BaseParams

C12_Witness ==
    /\ IncrementalRequested
    /\ since = "2024-01-01"
    /\ params = "caller"
    /\ params0 # EmptyDict
    /\ SentParams["since"] = "2024-01-01"
    /\ SentParams["date"] = "2025-07"
    /\ pc = "returned"

C12_WitnessNoCursor ==
    /\ IncrementalRequested
    /\ since = NoneStr
    /\ params = "caller"
    /\ SentParams["since"] = "old"
    /\ pc = "returned"

C12_WitnessEmptyCursor ==
    /\ IncrementalRequested
    /\ since = ""
    /\ params = NoneRef
    /\ SentParams = EmptyDict
    /\ pc = "returned"

\* C13: an incremental fetch issues exactly one request through
\* _make_request, whatever the response holds (no records, some, or as many
\* as a full page; a bare array or an envelope): once that request is
\* answered nothing more is requested, and the fetch returns the records of
\* that one response, unwrapped.
C13_OneRequestPerIncrementalFetch ==
    op = "fetch_incremental" =>
        /\ Len(requestLog) = 1
        /\ Len(served) <= 1
        /\ totalAttempts <= max_retries
        /\ ~ ENABLED RequestPage
        /\ pc = "response" =>
              /\ Len(served) = 1
              /\ ENABLED ReturnIncremental
              /\ ~ ENABLED (\E resp \in Responses : Attempt(resp))
        /\ pc = "returned" =>
              /\ Len(served) = 1
              /\ IsPageResponse(served[1]) => ret = JArray(RecordsOf(served[1]))
              /\ ~ ENABLED (\E resp \in Responses : Attempt(resp))

C13_Witness ==
    /\ op = "fetch_incremental"
    /\ pc = "returned"
    /\ Len(requestLog) = 1
    /\ served = << JArray(<< Rec(0, 1), Rec(0, 2) >>) >>
    /\ ret = JArray(<< Rec(0, 1), Rec(0, 2) >>)
    /\ totalAttempts = 2

\* C14: a paginated fetch has at most one request in flight, asks for pages
\* 1, 2, 3, ... in that order with none skipped or repeated, and asks for
\* page N+1 only once the request for page N has been answered with success.
Unanswered == Len(requestLog) - Len(served)

C14_SequentialPages ==
    Paginating =>
        /\ Unanswered \in {0, 1}
        /\ \A k \in 1..Len(requestLog) : requestLog[k].params[page_param] = k
        /\ pc \in {"request", "backoff", "raised"} =>
              Unanswered = 1 /\ page = Len(requestLog)
        /\ pc = "response" => Unanswered = 0 /\ page = Len(requestLog)
        /\ pc = "loop" => Unanswered = 0 /\ page = Len(requestLog) + 1
        /\ ENABLED RequestPage => Unanswered = 0 /\ Len(served) = page - 1
        /\ ENABLED (\E resp \in Responses : Attempt(resp)) =>
              Unanswered = 1 /\ RequestedPage = page

C14_Witness ==
    /\ Paginating
    /\ pc = "request"
    /\ page = 3
    /\ Len(requestLog) = 3
    /\ Len(served) = 2
    /\ requestLog[3].params[page_param] = 3
    /\ totalAttempts = 4

\* C15: within one request every failed attempt, the last one included, is
\* followed by a sleep before anything else happens: after a failed attempt
\* the only step is the sleep; the exhaustion error is raised only after
\* max_retries sleeps; a request that succeeds at attempt j has slept j-1 times.
AttemptFailed == pc = "backoff"

C15_TrailingSleep ==
    /\ AttemptFailed =>
          /\ status # 200
          /\ Len(sleeps) = attempts - 1
          /\ ENABLED Backoff
          /\ ~ ENABLED RaiseExhausted
          /\ ~ ENABLED (\E resp \in Responses : Attempt(resp))
          /\ ~ ENABLED RequestPage
          /\ ~ ENABLED ProcessPage
          /\ ~ ENABLED ReturnIncremental
          /\ ~ ENABLED CallEnds
    /\ pc = "request" => Len(sleeps) = attempts
    /\ ENABLED RaiseExhausted => Len(sleeps) = max_retries /\ attempts = max_retries
    /\ pc = "raised" => Len(sleeps) = max_retries /\ attempts = max_retries
    /\ pc = "response" => attempts >= 1 /\ Len(sleeps) = attempts - 1

C15_Witness ==
    /\ pc = "request"
    /\ max_retries = 2
    /\ attempts = 2
    /\ Len(sleeps) = 2
    /\ error = NoError
    /\ ENABLED RaiseExhausted

C15_WitnessSuccess ==
    /\ pc = "response"
    /\ max_retries = 3
    /\ attempts = 3
    /\ Len(sleeps) = 2

\* C16: a paginated fetch with max_pages = m >= 1 ends, by returning or by
\* raising the exhaustion error, whatever the API answers: it never makes
\* more than m page requests nor more than m * max_retries HTTP attempts, it
\* is never stuck before its end, and every step it takes lowers CallRank, a
\* natural number, so it cannot run for ever.
BoundedCall == Paginating /\ max_pages >= 1
CallOver == pc \in {"returned", "raised"}

\* Steps left to the end of the call at most: per page one step to build the
\* request, two per attempt (the attempt and its sleep), one to raise or to
\* handle the response.
PageWeight == 2 * max_retries + 4
CallRank ==
    IF CallOver THEN 0
    ELSE (max_pages - page) * PageWeight
         + CASE pc = "loop" -> 2 * max_retries + 3
             [] pc = "request" -> 2 * (max_retries - retries) + 2
             [] pc = "backoff" -> 2 * (max_retries - retries) + 1
             [] OTHER -> 1

C16_BoundedWork ==
    /\ [](BoundedCall =>
            /\ page <= max_pages
            /\ Len(requestLog) <= max_pages
            /\ totalAttempts <= max_pages * max_retries
            /\ CallRank >= 0
            /\ ~ CallOver => ENABLED Next)
    /\ [][(BoundedCall /\ ~ CallOver) => CallRank' < CallRank]_vars

C16_Witness ==
    /\ BoundedCall
    /\ pc = "raised"
    /\ max_pages = 2
    /\ max_retries = 3
    /\ Len(requestLog) = max_pages
    /\ totalAttempts = max_pages * max_retries

\* The k-th request of a paginated fetch: apart from the keys in given, its
\* parameters are the caller's; it goes to base_url + endpoint; the mapping
\* sent is not the caller's object.
BaseParamsKept(q, given) ==
    /\ DOMAIN q = DOMAIN BaseParams \cup given
    /\ \A key \in DOMAIN BaseParams \ given : q[key] = BaseParams[key]

SentTo(k) == requestLog[k].url = << base_url, endpoint >>
FreshMapping == req_params # NoneRef => req_params # params /\ heap.caller = params0

\* C17 as stated: the request for page k carries the caller's parameters
\* extended with page_param = k and "results" = per_page, these two replacing
\* what the caller gave under the same keys; the first page is 1.
C17_AsStated ==
    Paginating =>
        /\ FreshMapping
        /\ \A k \in 1..Len(requestLog) :
              LET q == requestLog[k].params
              IN  /\ SentTo(k)
                  /\ BaseParamsKept(q, {page_param, "results"})
                  /\ q[page_param] = k
                  /\ q["results"] = per_page

\* C17, amended: the request for page k carries the caller's parameters
\* extended with "results" = per_page and, when page_param is not "results",
\* with page_param = k, these replacing what the caller gave under the same
\* keys; when page_param is "results" the page size takes the key and no page
\* number is sent.  The first page is 1.
C17_RequestParams ==
    Paginating =>
        /\ FreshMapping
        /\ (pc = "loop" /\ requestLog = << >>) => page = 1
        /\ pc \in {"request", "backoff", "response"} =>
              /\ Len(requestLog) = page
              /\ heap[req_params] = requestLog[page].params
        /\ \A k \in 1..Len(requestLog) :
              LET q == requestLog[k].params
              IN  /\ SentTo(k)
                  /\ BaseParamsKept(q, {page_param, "results"})
                  /\ page_param # "results" => q[page_param] = k
                  /\ q["results"] = per_page

C17_Witness ==
    /\ Paginating
    /\ pc = "request"
    /\ params = "caller"
    /\ params0 # EmptyDict
    /\ page_param = "page"
    /\ per_page = 2
    /\ Len(requestLog) = 2
    /\ requestLog[2].params =
          ("date" :> "2025-07") @@ ("page" :> 2) @@ ("results" :> 2) @@ ("since" :> "old")

C17_WitnessCollision ==
    /\ Paginating
    /\ pc = "request"
    /\ params = NoneRef
    /\ page_param = "results"
    /\ per_page = 1
    /\ Len(requestLog) = 2
    /\ requestLog[2].params = ("results" :> 1)

\* C18: the retry counter and the backoff schedule belong to the request, not
\* to the fetch: every page's request starts with retries = 0 whatever failed
\* on earlier pages, may make max_retries attempts, and sleeps backoff_factor
\* first; so a fetch of p pages may make up to p * max_retries attempts
\* without failing.
C18_BudgetPerRequest ==
    Paginating =>
        /\ (pc = "request" /\ attempts = 0) => retries = 0 /\ sleeps = << >>
        /\ pc = "request" => retries = attempts
        /\ pc = "backoff" => retries = attempts - 1
        /\ (pc = "request" /\ attempts < max_retries) =>
              /\ ENABLED (\E resp \in Responses : Attempt(resp))
              /\ ~ ENABLED RaiseExhausted
        /\ sleeps # << >> => sleeps[1] = backoff_factor
        /\ attempts <= max_retries
        /\ totalAttempts <= Len(requestLog) * max_retries
        /\ pc = "raised" => attempts = max_retries

C18_Witness ==
    /\ Paginating
    /\ pc = "returned"
    /\ error = NoError
    /\ max_retries = 3
    /\ Len(requestLog) = 3
    /\ totalAttempts = 9

C18_WitnessLaterPage ==
    /\ Paginating
    /\ pc = "request"
    /\ page = 2
    /\ max_retries = 2
    /\ totalAttempts = 3
    /\ attempts = 1
    /\ sleeps = << backoff_factor >>

\* C19: max_pages = 0 is no maximum, as None is: the max-page stop never
\* fires, the fetch returns only on a page that is empty or short, and as
\* long as every page is full (exactly per_page records) it has not returned
\* and goes on to the next page, so against an API whose pages are all full
\* it never ends.
NoMaximum == Paginating /\ max_pages = 0
LastItems == Unwrap(served[Len(served)])

=============================================================================
